---------------------------- MODULE Spec2Model ----------------------------
(***************************************************************************)
(* picoproject: the install, compile and export commands of the CLI        *)
(* (src/src/picoproject/main.py), the package downloader                   *)
(* (utils/installation.py) and the process-wide progress trackers          *)
(* (utils/progress.py), as a state machine.                                *)
(*                                                                         *)
(* Strings that the code takes apart (file names, hashes, package names)   *)
(* are sequences of tokens; a path is a record of its directory            *)
(* components, its file name and whether it is absolute.  The filesystem   *)
(* maps a node (the sequence of names from the root) to "absent", "dir"    *)
(* or the bytes of a regular file.                                         *)
(***************************************************************************)
EXTENDS Integers, Sequences, FiniteSets, TLC

VARIABLES
    command,      \* progress.command: the per-item tasks, in creation order
    commands,     \* progress.commands: the running-total tasks
    is_started,   \* progress_display.is_started
    script,       \* the command lines this process will run, in order
    ran,          \* how many of them have ended
    pc,           \* control point of the running command
    call,         \* frame of the running command
    dl,           \* frame of download_mpy_package
    remote,       \* what the index, manifest and content endpoints answer
    fs,           \* the filesystem
    returned,     \* how the last command ended
    log,          \* history: one record per package install has finished
    cc,           \* frame of cross_compile
    clog,         \* history: one record per target compile has finished
    xlog          \* history: one record per item export has finished

vars == <<command, commands, is_started, script, ran, pc, call, dl, remote,
          fs, returned, log, cc, clog, xlog>>

\* what install leaves alone
build == <<cc, clog, xlog>>

\* what compile and export leave alone
network == <<dl, remote, log>>

----------------------------------------------------------------------------
(* Bounds of the model *)

MaxCommands == 2

MaxManifest == 2

MaxEntries == 3

----------------------------------------------------------------------------
(* Sequences of tokens *)

Front(s) == SubSeq(s, 1, Len(s) - 1)

Last(s) == s[Len(s)]

StartsWith(s, prefix) ==
    /\ Len(s) >= Len(prefix)
    /\ SubSeq(s, 1, Len(prefix)) = prefix

\* str.replace(old, ""): every non-overlapping occurrence, left to right;
\* with old = "" the string comes back unchanged
RECURSIVE Remove(_, _)
Remove(s, old) ==
    IF old = <<>> \/ s = <<>> THEN s
    ELSE IF StartsWith(s, old)
         THEN Remove(SubSeq(s, Len(old) + 1, Len(s)), old)
         ELSE <<s[1]>> \o Remove(Tail(s), old)

\* index of the last "." of a name, 0 when it has none (str.rfind, 1-based)
RDot(name) ==
    LET dots == {i \in 1..Len(name) : name[i] = "."}
    IN  IF dots = {} THEN 0 ELSE CHOOSE i \in dots : \A j \in dots : j <= i

\* pathlib PurePath.suffix: from the last dot, unless the dot leads or ends
\* the name
Suffix(name) ==
    LET i == RDot(name)
    IN  IF 1 < i /\ i < Len(name) THEN SubSeq(name, i, Len(name)) ELSE <<>>

\* pathlib PurePath.stem
Stem(name) ==
    LET i == RDot(name)
    IN  IF 1 < i /\ i < Len(name) THEN SubSeq(name, 1, i - 1) ELSE name

----------------------------------------------------------------------------
(* Paths and the filesystem *)

Path(dirs, name, abs) == [dirs |-> dirs, name |-> name, abs |-> abs]

\* file_path.parent.name: the last directory component, "" when there is none
ParentName(p) == IF p.dirs = <<>> THEN <<>> ELSE Last(p.dirs)

\* the node a sequence of components names, ".." resolved against the parent
RECURSIVE Norm(_, _)
Norm(done, rest) ==
    IF rest = <<>> THEN done
    ELSE IF rest[1] = <<"..">>
         THEN Norm(IF done = <<>> THEN <<>> ELSE Front(done), Tail(rest))
         ELSE Norm(Append(done, rest[1]), Tail(rest))

\* target / file_path: an absolute file_path replaces the target
Join(target, p) ==
    Norm(<<>>, (IF p.abs THEN <<>> ELSE target) \o p.dirs \o <<p.name>>)

JoinParent(target, p) ==
    Norm(<<>>, (IF p.abs THEN <<>> ELSE target) \o p.dirs)

Kind(f, node) ==
    IF node = <<>> THEN "dir"
    ELSE IF node \in DOMAIN f THEN f[node] ELSE "absent"

IsFile(f, node) == Kind(f, node) \notin {"absent", "dir"}

IsDir(f, node) == Kind(f, node) = "dir"

NoExc == [type |-> "None", tag |-> ""]

Exc(type, tag) == [type |-> type, tag |-> tag]

\* Path.mkdir(parents=True, exist_ok=True): FileExistsError when the node is a
\* regular file, NotADirectoryError when one of its ancestors is
RECURSIVE Mkdir(_, _)
Mkdir(f, node) ==
    IF IsDir(f, node) THEN [fs |-> f, exc |-> NoExc]
    ELSE IF IsFile(f, node)
         THEN [fs |-> f, exc |-> Exc("FileExistsError", "mkdir")]
         ELSE LET up == Mkdir(f, Front(node))
              IN  IF up.exc # NoExc
                  THEN [fs |-> f, exc |-> Exc("NotADirectoryError", "mkdir")]
                  ELSE [fs |-> (node :> "dir") @@ up.fs, exc |-> NoExc]

\* a write that appends to what the file held
WrittenAppended(old, data) == IF old = "absent" THEN data ELSE "appended"

\* the bytes a write leaves in a file that held `old` (mode "wb": truncate)
Written(old, data) == data

\* Path.write_bytes
WriteBytes(f, node, data) ==
    IF Kind(f, Front(node)) = "absent"
    THEN [fs |-> f, exc |-> Exc("FileNotFoundError", "write")]
    ELSE IF IsFile(f, Front(node))
    THEN [fs |-> f, exc |-> Exc("NotADirectoryError", "write")]
    ELSE IF IsDir(f, node)
    THEN [fs |-> f, exc |-> Exc("IsADirectoryError", "write")]
    ELSE [fs |-> (node :> Written(Kind(f, node), data)) @@ f, exc |-> NoExc]

----------------------------------------------------------------------------
(* rich.progress.Progress, as progress.py instantiates it *)

NewTask(description, item, total) ==
    [description |-> description, item |-> item, completed |-> 0,
     total |-> total, visible |-> TRUE, finished |-> FALSE, stopped |-> FALSE]

\* Progress.update: `u` holds the keyword arguments given
Update(t, u) ==
    LET t1 == IF "total" \in DOMAIN u /\ u.total # t.total
              THEN [t EXCEPT !.total = u.total, !.finished = FALSE] ELSE t
        t2 == IF "advance" \in DOMAIN u
              THEN [t1 EXCEPT !.completed = @ + u.advance] ELSE t1
        t3 == IF "description" \in DOMAIN u
              THEN [t2 EXCEPT !.description = u.description] ELSE t2
        t4 == IF "visible" \in DOMAIN u
              THEN [t3 EXCEPT !.visible = u.visible] ELSE t3
    IN  [t4 EXCEPT !.finished = @ \/ t4.completed >= t4.total]

UpdateTask(tracker, id, u) == [tracker EXCEPT ![id] = Update(@, u)]

StopTask(tracker, id) == [tracker EXCEPT ![id].stopped = TRUE]

\* every task hidden, finished or not
HideAll(tracker) ==
    [id \in DOMAIN tracker |-> Update(tracker[id], [visible |-> FALSE])]

\* "hide successful tasks": every finished task of the tracker
HideFinished(tracker) ==
    [id \in DOMAIN tracker |->
        IF tracker[id].finished THEN Update(tracker[id], [visible |-> FALSE])
        ELSE tracker[id]]

\* the running total advanced whatever update_commands says
AsIntAlways(b) == 1

\* the `advance=update_commands` of the running total: a bool added to an int
AsInt(b) == IF b THEN 1 ELSE 0

----------------------------------------------------------------------------
(* The remote: index, per-package manifest and content store *)

Response(kind, status, body) == [kind |-> kind, status |-> status, body |-> body]

\* urllib raises HTTPError for a status outside 200..299 and URLError (which
\* carries no status) when the server cannot be reached
Raises(resp) == resp.kind \in {"http_error", "url_error"}

\* the connection is lost while the body is read: r.read() raises an OSError
\* (ConnectionResetError) or http.client.IncompleteRead, neither an URLError
ReadFails(resp) == resp.kind = "read_error"

IndexUrl == [endpoint |-> "index", name |-> <<>>, bucket |-> <<>>, hash |-> <<>>]

\* f"{mpy_index}/package/py/{package}/latest.json"
PackageUrl(package) ==
    [endpoint |-> "package", name |-> package, bucket |-> <<>>, hash |-> <<>>]

\* file_hash[:2]
Bucket(file_hash) ==
    SubSeq(file_hash, 1, IF Len(file_hash) < 2 THEN Len(file_hash) ELSE 2)

\* f"{mpy_index}/file/{file_hash[:2]}/{file_hash}"
FileUrl(file_hash) ==
    [endpoint |-> "file", name |-> <<>>, bucket |-> Bucket(file_hash),
     hash |-> file_hash]

\* what the content store serves at a url: 404 where it holds nothing
Serve(url) ==
    IF url \in DOMAIN remote.file THEN remote.file[url]
    ELSE Response("http_error", 404, "")

\* an entry without a path taken for one of the standard library
filter_stdlib_default(package_info) ==
    IF "path" \in DOMAIN package_info
    THEN StartsWith(package_info.path, <<"python-stdlib">>)
    ELSE TRUE

\* PackageIndex._filter_stdlib: package_info.get("path", "").startswith(...)
filter_stdlib(package_info) ==
    IF "path" \in DOMAIN package_info
    THEN StartsWith(package_info.path, <<"python-stdlib">>)
    ELSE StartsWith(<<>>, <<"python-stdlib">>)

\* PackageIndex.standard_library
standard_library(index) == {e.name : e \in {x \in index : filter_stdlib(x)}}

\* the owner always taken from the file name
OwnerNameOfFile(file_path) == Remove(file_path.name, Suffix(file_path.name))

\* the package a manifest path belongs to (installation.py, lines 93-96)
OwnerName(file_path) ==
    IF ParentName(file_path) = <<>>
    THEN Remove(file_path.name, Suffix(file_path.name))
    ELSE ParentName(file_path)

\* no status told apart: every HTTP failure reported as unknown
UrlErrorRaisedUnknown(resp) ==
    IF resp.kind = "url_error" THEN Exc("AttributeError", "status")
    ELSE Exc("URLError", "unknown")

\* the `except URLError` clause of download_mpy_package: e.status is read, and
\* an URLError that is no HTTPError has none
UrlErrorRaised(resp) ==
    IF resp.kind = "url_error" THEN Exc("AttributeError", "status")
    ELSE IF resp.status = 404 THEN Exc("URLError", "not_found")
    ELSE Exc("URLError", "unknown")

----------------------------------------------------------------------------
(* The install command (main.py, install) *)

NoFrame == [name |-> "none"]

NoDl ==
    [index |-> {}, cached |-> FALSE, stdlib |-> {}, entries |-> <<>>, k |-> 0,
     requests |-> <<>>, written |-> {}, swallowed |-> NoExc, tests |-> <<>>,
     fs0 |-> fs]

Invocation == script[ran + 1]

\* lines 144-157: enter the display unless it is already started, add the
\* running-total task; map(command.remove_task, ...) is never consumed
InstallStart ==
    /\ pc = "idle"
    /\ ran < Len(script)
    /\ Invocation.cmd = "install"
    /\ IF is_started
       THEN /\ call' = [name |-> "install", packages |-> Invocation.packages,
                        directory |-> Invocation.directory, i |-> 1,
                        commands_id |-> 1, update_commands |-> FALSE,
                        entered |-> FALSE, command_id |-> 0, exc |-> NoExc,
                        start |-> fs]
            /\ UNCHANGED <<commands, is_started>>
       ELSE /\ commands' = Append(commands,
                               NewTask("", <<>>, Len(Invocation.packages)))
            /\ is_started' = TRUE
            /\ call' = [name |-> "install", packages |-> Invocation.packages,
                        directory |-> Invocation.directory, i |-> 1,
                        commands_id |-> Len(commands) + 1,
                        update_commands |-> TRUE, entered |-> TRUE,
                        command_id |-> 0, exc |-> NoExc, start |-> fs]
    /\ pc' = "install_loop"
    /\ UNCHANGED <<command, script, ran, dl, remote, fs, returned, log>>
    /\ UNCHANGED build

\* lines 158-159: the next package gets its task, and the download begins
InstallItem ==
    /\ pc = "install_loop"
    /\ call.i <= Len(call.packages)
    /\ command' = Append(command, NewTask("Installing", call.packages[call.i], 1))
    /\ call' = [call EXCEPT !.command_id = Len(command) + 1, !.exc = NoExc]
    /\ dl' = NoDl
    /\ pc' = "dl_index"
    /\ UNCHANGED <<commands, is_started, script, ran, remote, fs, returned, log>>
    /\ UNCHANGED build

ThisPackage == call.packages[call.i]

Raise(exc) ==
    /\ call' = [call EXCEPT !.exc = exc]
    /\ pc' = "install_handle"

\* line 80, PackageIndex.__init__: the whole index is fetched, outside the try
DlIndex ==
    /\ pc = "dl_index"
    /\ LET r == remote.index
           asked == Append(dl.requests, IndexUrl)
       IN  IF r.kind \in {"http_error", "url_error"}
           THEN /\ Raise(Exc("URLError", "index"))
                /\ dl' = [dl EXCEPT !.requests = asked]
           ELSE IF ReadFails(r)
           THEN /\ Raise(Exc("OSError", "index"))
                /\ dl' = [dl EXCEPT !.requests = asked]
           ELSE IF r.kind = "bad_json"
           THEN /\ Raise(Exc("JSONDecodeError", "index"))
                /\ dl' = [dl EXCEPT !.requests = asked]
           ELSE /\ dl' = [dl EXCEPT !.index = r.body, !.requests = asked]
                /\ pc' = "dl_target"
                /\ UNCHANGED call
    /\ UNCHANGED <<command, commands, is_started, script, ran, remote, fs,
                   returned, log>>
    /\ UNCHANGED build

\* lines 82-83
DlTarget ==
    /\ pc = "dl_target"
    /\ IF ~IsDir(fs, call.directory)
       THEN Raise(Exc("FileNotFoundError", "target"))
       ELSE pc' = "dl_manifest" /\ UNCHANGED call
    /\ UNCHANGED <<command, commands, is_started, script, ran, dl, remote, fs,
                   returned, log>>
    /\ UNCHANGED build

\* lines 86-89 with the handlers of lines 111-121: an error of r.read() is
\* printed and dropped, and the function returns None
DlManifest ==
    /\ pc = "dl_manifest"
    /\ LET r == remote.package[ThisPackage]
           asked == Append(dl.requests, PackageUrl(ThisPackage))
       IN  IF Raises(r)
           THEN /\ Raise(UrlErrorRaised(r))
                /\ dl' = [dl EXCEPT !.requests = asked]
           ELSE IF ReadFails(r)
           THEN /\ Raise(NoExc)
                /\ dl' = [dl EXCEPT !.requests = asked,
                                    !.swallowed = Exc("OSError", "read")]
           ELSE IF r.kind = "bad_json"
           THEN /\ Raise(Exc("JSONDecodeError", "manifest"))
                /\ dl' = [dl EXCEPT !.requests = asked]
           ELSE /\ dl' = [dl EXCEPT !.entries = r.body, !.k = 1,
                                    !.requests = asked]
                /\ pc' = "dl_entries"
                /\ UNCHANGED call
    /\ UNCHANGED <<command, commands, is_started, script, ran, remote, fs,
                   returned, log>>
    /\ UNCHANGED build

\* lines 104-110: fetch one file and write it; the result is the filesystem,
\* the exception raised (if any) and whether a request was answered
Fetch(f, target, file_path, file_hash) ==
    LET r == Serve(FileUrl(file_hash))
        made == IF ParentName(file_path) # <<>>
                THEN Mkdir(f, JoinParent(target, file_path))
                ELSE [fs |-> f, exc |-> NoExc]
        put == WriteBytes(made.fs, Join(target, file_path), r.body)
    IN  IF Raises(r) THEN [fs |-> f, exc |-> UrlErrorRaised(r), wrote |-> FALSE]
        ELSE IF r.status # 200 THEN [fs |-> f, exc |-> NoExc, wrote |-> FALSE]
        ELSE IF made.exc # NoExc THEN [fs |-> f, exc |-> made.exc, wrote |-> FALSE]
        ELSE IF ReadFails(r)
             THEN [fs |-> made.fs, exc |-> Exc("OSError", "read"), wrote |-> FALSE]
        ELSE IF put.exc # NoExc
             THEN [fs |-> made.fs, exc |-> put.exc, wrote |-> FALSE]
             ELSE [fs |-> put.fs, exc |-> NoExc, wrote |-> TRUE]

\* the handlers of lines 111-121: URLError (already translated), JSONDecodeError
\* and FileExistsError leave the function, anything else is printed and dropped
Propagates(exc) ==
    exc.type \in {"URLError", "AttributeError", "JSONDecodeError", "FileExistsError"}

\* lines 91-110, one manifest entry per step; past the last one the function
\* returns None
DlEntry ==
    /\ pc = "dl_entries"
    /\ IF dl.k > Len(dl.entries)
       THEN /\ Raise(NoExc)
            /\ UNCHANGED <<dl, fs>>
       ELSE LET e == dl.entries[dl.k]
                name == OwnerName(e.path)
                lib == IF dl.cached THEN dl.stdlib ELSE standard_library(dl.index)
                got == Fetch(fs, call.directory, e.path, e.hash)
                seen == [dl EXCEPT !.cached = TRUE, !.stdlib = lib,
                                   !.tests = Append(@, [path |-> e.path,
                                                        name |-> name,
                                                        stdlib |-> lib])]
                asked == [seen EXCEPT !.requests = Append(@, FileUrl(e.hash))]
            IN  IF name \in lib
                THEN IF name = ThisPackage
                     THEN /\ Raise(Exc("FileExistsError", "stdlib"))
                          /\ dl' = seen
                          /\ UNCHANGED fs
                     ELSE /\ dl' = [seen EXCEPT !.k = @ + 1]
                          /\ UNCHANGED <<call, pc, fs>>
                ELSE /\ fs' = got.fs
                     /\ IF got.exc = NoExc
                        THEN /\ dl' = [asked EXCEPT !.k = @ + 1,
                                  !.written = IF got.wrote
                                              THEN @ \cup {Join(call.directory, e.path)}
                                              ELSE @]
                             /\ UNCHANGED <<call, pc>>
                        ELSE IF Propagates(got.exc)
                        THEN /\ Raise(got.exc)
                             /\ dl' = asked
                        ELSE /\ Raise(NoExc)
                             /\ dl' = [asked EXCEPT !.swallowed = got.exc]
    /\ UNCHANGED <<command, commands, is_started, script, ran, remote,
                   returned, log>>
    /\ UNCHANGED build

\* the except clauses of install (lines 162-167)
Caught(exc) == exc.type \in {"FileNotFoundError", "FileExistsError", "URLError"}

\* what install writes on the task of a package whose download ended with exc
Outcome(exc) ==
    IF exc = NoExc THEN [description |-> "Installed", advance |-> 1]
    ELSE [description |-> "Error"]

ItemRecord ==
    [cmd |-> ran + 1, package |-> ThisPackage, task |-> call.command_id,
     exc |-> call.exc, swallowed |-> dl.swallowed, requests |-> dl.requests,
     written |-> dl.written, cached |-> dl.cached, stdlib |-> dl.stdlib,
     tests |-> dl.tests,
     entries |-> dl.entries, before |-> dl.fs0, after |-> fs]

\* lines 160-174: the try statement around the download.  An exception no
\* clause names leaves install after the finally clause, through the ExitStack.
InstallHandle ==
    /\ pc = "install_handle"
    /\ log' = Append(log, ItemRecord)
    /\ IF call.exc = NoExc \/ Caught(call.exc)
       THEN /\ command' = StopTask(UpdateTask(command, call.command_id,
                                              Outcome(call.exc)), call.command_id)
            /\ commands' = IF call.exc = NoExc
                           THEN UpdateTask(commands, call.commands_id,
                                    [advance |-> AsInt(call.update_commands)])
                           ELSE commands
            /\ call' = [call EXCEPT !.i = @ + 1]
            /\ pc' = "install_loop"
            /\ UNCHANGED <<is_started, ran, returned>>
       ELSE /\ command' = StopTask(command, call.command_id)
            /\ is_started' = IF call.entered THEN FALSE ELSE is_started
            /\ returned' = [status |-> "raised", exc |-> call.exc, tasks |-> <<>>,
                             start |-> call.start]
            /\ ran' = ran + 1
            /\ call' = NoFrame
            /\ pc' = "idle"
            /\ UNCHANGED commands
    /\ UNCHANGED <<script, dl, remote, fs>>
    /\ UNCHANGED build

\* lines 175-179: hide the finished tasks and return the tracker's tasks
InstallReturn ==
    /\ pc = "install_loop"
    /\ call.i > Len(call.packages)
    /\ command' = HideFinished(command)
    /\ returned' = [status |-> "returned", exc |-> NoExc,
                    tasks |-> HideFinished(command), start |-> call.start]
    /\ is_started' = IF call.entered THEN FALSE ELSE is_started
    /\ ran' = ran + 1
    /\ call' = NoFrame
    /\ pc' = "idle"
    /\ UNCHANGED <<commands, script, dl, remote, fs, log>>
    /\ UNCHANGED build

----------------------------------------------------------------------------
(* The project (utils/project.py): root, package directory, export directory *)

Root == << <<"proj">> >>

Package == Root \o << <<"proj">> >>

Export == Root \o << <<"export">> >>

EndsWith(s, tail) ==
    /\ Len(s) >= Len(tail)
    /\ SubSeq(s, Len(s) - Len(tail) + 1, Len(s)) = tail

\* Path.match("*.py"), Path.match("*.pyc"): on the last component
python_file(node) == EndsWith(Last(node), <<".", "py">>)

cpython_file(node) == EndsWith(Last(node), <<".", "pyc">>)

\* the pattern of rglob("*.*"): a name with a dot in it
Dotted(node) == \E n \in DOMAIN Last(node) : Last(node)[n] = "."

\* Path.with_suffix(".mpy"): the stem of the last component, then the suffix
micropython_version(node) == Append(Front(node), Stem(Last(node)) \o <<".", "mpy">>)

Under(node, base) ==
    /\ Len(node) > Len(base)
    /\ SubSeq(node, 1, Len(base)) = base

\* item.relative_to(base, walk_up=True)
RECURSIVE RelativeTo(_, _)
RelativeTo(node, base) ==
    IF base = <<>> THEN node
    ELSE IF node # <<>> /\ node[1] = base[1]
         THEN RelativeTo(Tail(node), Tail(base))
         ELSE [n \in 1..Len(base) |-> <<"..">>] \o node

\* the order sorted() puts paths in: part by part, each part as a string
TokenRank(t) ==
    CASE t = "." -> 1 [] t = "README" -> 2 [] t = "a" -> 3 [] t = "d" -> 4
      [] t = "m" -> 5 [] t = "mpy" -> 6 [] t = "n" -> 7 [] t = "p" -> 8
      [] t = "py" -> 9 [] t = "pyc" -> 10 [] t = "sub" -> 11 [] OTHER -> 12

RECURSIVE LessName(_, _)
LessName(a, b) ==
    IF b = <<>> THEN FALSE
    ELSE IF a = <<>> THEN TRUE
    ELSE IF a[1] = b[1] THEN LessName(Tail(a), Tail(b))
    ELSE TokenRank(a[1]) < TokenRank(b[1])

RECURSIVE LessNode(_, _)
LessNode(a, b) ==
    IF b = <<>> THEN FALSE
    ELSE IF a = <<>> THEN TRUE
    ELSE IF a[1] = b[1] THEN LessNode(Tail(a), Tail(b))
    ELSE LessName(a[1], b[1])

RECURSIVE Sorted(_)
Sorted(S) ==
    IF S = {} THEN <<>>
    ELSE LET least == CHOOSE x \in S : \A y \in S : x = y \/ LessNode(x, y)
         IN  <<least>> \o Sorted(S \ {least})

\* lines 195-196: everything under the package directory whose name has a dot
\* in it, directories too, less the *.pyc, sorted
Exports(f) ==
    Sorted({node \in DOMAIN f :
               /\ Under(node, Package)
               /\ Kind(f, node) # "absent"
               /\ Dotted(node)
               /\ ~cpython_file(node)})

----------------------------------------------------------------------------
(* The compile command (main.py, cross_compile) *)

\* the bytes mpy-cross makes of a source
Mpy(source) ==
    CASE source = "py1" -> "mpy1" [] source = "py2" -> "mpy2" [] OTHER -> "mpy"

CompilerOutcomes == {"exit0", "nonzero", "timeout", "oserror"}

\* lines 79-89: a compile called by export finds the display started and takes
\* the first running-total task; map(command.remove_task, ...) is never consumed
CompileEnter(targets, nested) ==
    IF is_started
    THEN /\ cc' = [name |-> "compile", targets |-> targets, i |-> 1,
                   commands_id |-> 1, update_commands |-> FALSE,
                   entered |-> FALSE, nested |-> nested, command_id |-> 0,
                   exc |-> NoExc, polled |-> FALSE, before |-> fs, start |-> fs]
         /\ UNCHANGED <<commands, is_started>>
    ELSE /\ commands' = Append(commands, NewTask("", <<>>, Len(targets)))
         /\ is_started' = TRUE
         /\ cc' = [name |-> "compile", targets |-> targets, i |-> 1,
                   commands_id |-> Len(commands) + 1, update_commands |-> TRUE,
                   entered |-> TRUE, nested |-> nested, command_id |-> 0,
                   exc |-> NoExc, polled |-> FALSE, before |-> fs, start |-> fs]

CompileStart ==
    /\ pc = "idle"
    /\ ran < Len(script)
    /\ Invocation.cmd = "compile"
    /\ CompileEnter(Invocation.targets, FALSE)
    /\ pc' = "compile_loop"
    /\ UNCHANGED <<command, script, ran, call, fs, returned, clog, xlog>>
    /\ UNCHANGED network

Target == cc.targets[cc.i]

\* lines 91-94
CompileItem ==
    /\ pc = "compile_loop"
    /\ cc.i <= Len(cc.targets)
    /\ command' = Append(command,
                     NewTask("Compiling", RelativeTo(Target, Package), 1))
    /\ cc' = [cc EXCEPT !.command_id = Len(command) + 1, !.exc = NoExc,
                        !.polled = FALSE, !.before = fs]
    /\ pc' = "compile_run"
    /\ UNCHANGED <<commands, is_started, script, ran, call, fs, returned,
                   clog, xlog>>
    /\ UNCHANGED network

\* lines 95-98: the compiler runs; it exits within the timeout with code 0
\* (only a source it can read), exits with another code, is still running
\* after the timeout, or could not be started
CompileRun ==
    /\ pc = "compile_run"
    /\ \E outcome \in CompilerOutcomes :
          /\ outcome = "exit0" => IsFile(fs, Target)
          /\ IF outcome = "exit0"
             THEN pc' = "compile_poll" /\ UNCHANGED cc
             ELSE /\ pc' = "compile_handle"
                  /\ cc' = [cc EXCEPT !.exc =
                               CASE outcome = "nonzero" -> Exc("CompilationError", "")
                                 [] outcome = "timeout" -> Exc("TimeoutExpired", "")
                                 [] OTHER -> Exc("OSError", "")]
    /\ UNCHANGED <<command, commands, is_started, script, ran, call, fs,
                   returned, clog, xlog>>
    /\ UNCHANGED network

\* the artifact of a compiler that exited with code 0 reaches the filesystem
Materialise ==
    /\ pc = "compile_poll"
    /\ IsFile(fs, Target)
    /\ ~IsDir(fs, micropython_version(Target))
    /\ Kind(fs, micropython_version(Target)) # Mpy(Kind(fs, Target))
    /\ fs' = (micropython_version(Target) :> Mpy(Kind(fs, Target))) @@ fs
    /\ UNCHANGED <<command, commands, is_started, script, ran, pc, call, cc,
                   returned, clog, xlog>>
    /\ UNCHANGED network

\* the poll gives up after one look, whether or not the artifact is there
CompilePollOnce ==
    /\ pc = "compile_poll"
    /\ cc' = [cc EXCEPT !.exc = NoExc, !.polled = TRUE]
    /\ pc' = "compile_handle"
    /\ UNCHANGED <<command, commands, is_started, script, ran, call, fs,
                   returned, clog, xlog>>
    /\ UNCHANGED network

\* lines 99-100: the loop ends once compiled(item).exists()
CompilePoll ==
    /\ pc = "compile_poll"
    /\ Kind(fs, micropython_version(Target)) # "absent"
    /\ cc' = [cc EXCEPT !.exc = NoExc, !.polled = TRUE]
    /\ pc' = "compile_handle"
    /\ UNCHANGED <<command, commands, is_started, script, ran, call, fs,
                   returned, clog, xlog>>
    /\ UNCHANGED network

\* the task of a compiled target described but not advanced
CompileOutcomeNotAdvanced(exc) ==
    IF exc = NoExc THEN [description |-> "Compiled"]
    ELSE IF exc.type = "TimeoutExpired" THEN [visible |-> TRUE]
    ELSE [description |-> "Error"]

\* what the except and else clauses (lines 101-113) write on the task; a
\* timeout only kills the process and logs
CompileOutcome(exc) ==
    IF exc = NoExc THEN [description |-> "Compiled", advance |-> 1]
    ELSE IF exc.type = "TimeoutExpired" THEN [visible |-> TRUE]
    ELSE [description |-> "Error"]

TargetRecord ==
    [cmd |-> ran + 1, target |-> Target, task |-> cc.command_id,
     exc |-> cc.exc, polled |-> cc.polled, nested |-> cc.nested,
     commands_id |-> cc.commands_id, before |-> cc.before, after |-> fs,
     total_before |-> commands[cc.commands_id].completed, total_after |-> 0]

\* lines 101-116
CompileHandle ==
    /\ pc = "compile_handle"
    /\ command' = StopTask(UpdateTask(command, cc.command_id,
                                      CompileOutcome(cc.exc)), cc.command_id)
    /\ commands' = IF cc.exc = NoExc
                   THEN UpdateTask(commands, cc.commands_id,
                            [advance |-> AsInt(cc.update_commands)])
                   ELSE commands
    /\ clog' = Append(clog, [TargetRecord EXCEPT !.total_after =
                                  commands'[cc.commands_id].completed])
    /\ cc' = [cc EXCEPT !.i = @ + 1]
    /\ pc' = "compile_loop"
    /\ UNCHANGED <<is_started, script, ran, call, fs, returned, xlog>>
    /\ UNCHANGED network

\* lines 117-122: hide the finished tasks, return the tracker's tasks; a compile
\* that export called returns into export
CompileReturn ==
    /\ pc = "compile_loop"
    /\ cc.i > Len(cc.targets)
    /\ command' = HideFinished(command)
    /\ cc' = NoFrame
    /\ IF cc.nested
       THEN /\ pc' = "export_compiled"
            /\ UNCHANGED <<is_started, ran, returned>>
       ELSE /\ pc' = "idle"
            /\ is_started' = IF cc.entered THEN FALSE ELSE is_started
            /\ ran' = ran + 1
            /\ returned' = [status |-> "returned", exc |-> NoExc,
                            tasks |-> HideFinished(command), start |-> cc.start]
    /\ UNCHANGED <<commands, script, call, fs, clog, xlog>>
    /\ UNCHANGED network

----------------------------------------------------------------------------
(* The export command (main.py, export) *)

\* project.export / item_name
Destination(item) == Export \o RelativeTo(item, Package)

\* lines 194-213: the items are listed, the display entered, the running-total
\* task added and the export directory made
ExportStart ==
    /\ pc = "idle"
    /\ ran < Len(script)
    /\ Invocation.cmd = "export"
    /\ LET exports == Exports(fs)
           frame == [name |-> "export", precompiled |-> Invocation.precompiled,
                     exports |-> exports, i |-> 1, commands_total |-> Len(exports),
                     command_id |-> 0, invoked |-> 0, unlinked |-> FALSE,
                     before |-> fs, start |-> fs]
       IN  IF is_started
           THEN /\ call' = frame @@ [commands_id |-> 1, update_commands |-> FALSE,
                                     entered |-> FALSE]
                /\ UNCHANGED <<commands, is_started>>
           ELSE /\ commands' = Append(commands, NewTask("", <<>>, Len(exports)))
                /\ is_started' = TRUE
                /\ call' = frame @@ [commands_id |-> Len(commands) + 1,
                                     update_commands |-> TRUE, entered |-> TRUE]
    /\ fs' = IF Kind(fs, Export) = "absent" THEN (Export :> "dir") @@ fs ELSE fs
    /\ pc' = "export_loop"
    /\ UNCHANGED <<command, script, ran, cc, returned, clog, xlog>>
    /\ UNCHANGED network

Item == call.exports[call.i]

ExportRecord(branch, task, exc) ==
    [cmd |-> ran + 1, item |-> Item, precompiled |-> call.precompiled,
     branch |-> branch, task |-> task, first_task |-> call.command_id,
     exc |-> exc, invoked |-> call.invoked, unlinked |-> call.unlinked,
     before |-> call.before, after |-> fs']

\* an exception inside export leaves it through the ExitStack
ExportRaise(exc) ==
    /\ returned' = [status |-> "raised", exc |-> exc, tasks |-> <<>>,
                    start |-> call.start]
    /\ is_started' = IF call.entered THEN FALSE ELSE is_started
    /\ ran' = ran + 1
    /\ call' = NoFrame
    /\ pc' = "idle"

\* lines 264-266: the raw copy, and the task marked "Exported"
ExportRaw(f, tasks, task, branch) ==
    LET dest == Destination(Item)
        put == IF IsFile(f, Item) THEN WriteBytes(f, dest, Kind(f, Item))
               ELSE [fs |-> f, exc |-> Exc("IsADirectoryError", "read")]
    IN  /\ fs' = put.fs
        /\ command' = IF put.exc = NoExc
                      THEN UpdateTask(tasks, task,
                               [description |-> "Exported", advance |-> 1])
                      ELSE tasks
        /\ xlog' = Append(xlog, ExportRecord(branch, task, put.exc))
        /\ IF put.exc = NoExc
           THEN /\ commands' = UpdateTask(commands, call.commands_id,
                                   [advance |-> AsInt(call.update_commands)])
                /\ call' = [call EXCEPT !.i = @ + 1, !.invoked = 0,
                                        !.unlinked = FALSE, !.before = put.fs]
                /\ pc' = "export_loop"
                /\ UNCHANGED <<is_started, ran, returned>>
           ELSE /\ ExportRaise(put.exc)
                /\ UNCHANGED commands

\* the previous export left where it is
UnlinkedNothing(f, dest) == f

\* lines 229-230: item_export.unlink() when item_export.exists()
Unlinked(f, dest) == IF Kind(f, dest) # "absent" THEN (dest :> "absent") @@ f ELSE f

\* lines 220-239 and 264-266: one item, up to the call of cross_compile when a
\* source has no artifact beside it
ExportItem ==
    /\ pc = "export_loop"
    /\ call.i <= Len(call.exports)
    /\ LET task == Len(command) + 1
           tasks == Append(command,
                       NewTask("Exporting", RelativeTo(Item, Package), 1))
           dest == Destination(Item)
           made == Mkdir(fs, Front(dest))
           stale == Kind(made.fs, dest) # "absent"
           clean == Unlinked(made.fs, dest)
       IN  IF made.exc # NoExc \/ (call.precompiled /\ python_file(Item)
                                      /\ IsDir(made.fs, dest))
           THEN /\ command' = tasks
                /\ fs' = fs
                /\ xlog' = Append(xlog, ExportRecord("raw", task, made.exc))
                /\ ExportRaise(IF made.exc # NoExc THEN made.exc
                               ELSE Exc("IsADirectoryError", "unlink"))
                /\ UNCHANGED <<commands, cc>>
           ELSE IF call.precompiled /\ python_file(Item)
           THEN IF Kind(clean, micropython_version(Item)) # "absent"
                THEN /\ fs' = clean
                     /\ command' = StopTask(tasks, task)
                     /\ commands' = UpdateTask(commands, call.commands_id,
                                        [total |-> call.commands_total - 1])
                     /\ xlog' = Append(xlog, [ExportRecord("skipped", task, NoExc)
                                                 EXCEPT !.unlinked = stale])
                     /\ call' = [call EXCEPT !.i = @ + 1,
                                             !.commands_total = @ - 1,
                                             !.invoked = 0, !.unlinked = FALSE,
                                             !.before = clean]
                     /\ pc' = "export_loop"
                     /\ UNCHANGED <<is_started, ran, returned, cc>>
                ELSE /\ fs' = clean
                     /\ command' = tasks
                     /\ call' = [call EXCEPT !.command_id = task,
                                             !.invoked = @ + 1,
                                             !.unlinked = stale]
                     /\ CompileEnter(<<Item>>, TRUE)
                     /\ pc' = "compile_loop"
                     /\ UNCHANGED <<ran, returned, xlog>>
           ELSE /\ ExportRaw(made.fs, tasks, task, "raw")
                /\ UNCHANGED cc
    /\ UNCHANGED <<script, clog>>
    /\ UNCHANGED network

\* lines 241-266, after cross_compile has returned: the artifact, if there is
\* one now, is copied under a new task; if there is none the task is marked
\* "Error" and control reaches the raw copy of line 264
ExportCompiled ==
    /\ pc = "export_compiled"
    /\ LET artifact == micropython_version(Item)
           task == Len(command) + 1
           put == IF IsFile(fs, artifact)
                  THEN WriteBytes(fs, micropython_version(Destination(Item)),
                                  Kind(fs, artifact))
                  ELSE [fs |-> fs, exc |-> Exc("IsADirectoryError", "read")]
       IN  IF Kind(fs, artifact) # "absent"
           THEN /\ fs' = put.fs
                /\ xlog' = Append(xlog, ExportRecord("compiled", task, put.exc))
                /\ IF put.exc = NoExc
                   THEN /\ command' =
                              UpdateTask(
                                  Append(StopTask(command, call.command_id),
                                         NewTask("Exporting",
                                             micropython_version(
                                                 RelativeTo(Item, Package)), 1)),
                                  task,
                                  [description |-> "Exported/Compiled",
                                   advance |-> 1])
                        /\ commands' = UpdateTask(commands, call.commands_id,
                                           [advance |-> AsInt(call.update_commands)])
                        /\ call' = [call EXCEPT !.i = @ + 1, !.invoked = 0,
                                                !.unlinked = FALSE,
                                                !.before = put.fs]
                        /\ pc' = "export_loop"
                        /\ UNCHANGED <<is_started, ran, returned>>
                   ELSE /\ command' =
                              Append(StopTask(command, call.command_id),
                                     NewTask("Exporting",
                                         micropython_version(
                                             RelativeTo(Item, Package)), 1))
                        /\ ExportRaise(put.exc)
                        /\ UNCHANGED commands
           ELSE ExportRaw(fs,
                          UpdateTask(StopTask(command, call.command_id),
                                     call.command_id, [description |-> "Error"]),
                          call.command_id, "failed")
    /\ UNCHANGED <<script, cc, clog>>
    /\ UNCHANGED network

\* lines 267-294: hide the finished tasks, leave the display, return the
\* tracker's tasks
ExportReturn ==
    /\ pc = "export_loop"
    /\ call.i > Len(call.exports)
    /\ command' = HideFinished(command)
    /\ returned' = [status |-> "returned", exc |-> NoExc,
                    tasks |-> HideFinished(command), start |-> call.start]
    /\ is_started' = IF call.entered THEN FALSE ELSE is_started
    /\ ran' = ran + 1
    /\ call' = NoFrame
    /\ pc' = "idle"
    /\ UNCHANGED <<commands, script, fs, cc, clog, xlog>>
    /\ UNCHANGED network

----------------------------------------------------------------------------
(* The install sessions checked: package "a" is installed into /lib, once or
   again, against every remote and every initial directory below *)

A == <<"a">>

B == <<"b">>

Lib == << <<"lib">> >>

Py(stem) == stem \o <<".", "py">>

H1 == <<"a", "b", "1">>

H2 == <<"a", "c", "2">>

Entry(path, hash) == [path |-> path, hash |-> hash]

\* a.py, b/a.py and a file called b
InstallEntries ==
    { Entry(Path(<<>>, Py(A), FALSE), H1),
      Entry(Path(<<B>>, Py(A), FALSE), H2),
      Entry(Path(<<>>, B, FALSE), H1) }

SeqsUpTo(S, n) == UNION {[1..m -> S] : m \in 0..n}

\* each name is listed under the standard-library prefix or elsewhere
Catalogs ==
    { {[name |-> n, path |-> IF n \in S THEN <<"python-stdlib", n>>
                                       ELSE <<"micropython", n>>] : n \in {A, B}}
      : S \in SUBSET {A, B} }

Failures(body) ==
    { Response("http_error", 404, body), Response("http_error", 500, body),
      Response("url_error", 0, body), Response("read_error", 200, body) }

ManifestResponses ==
    {Response("ok", 200, m) : m \in SeqsUpTo(InstallEntries, MaxManifest)}
        \cup Failures(<<>>) \cup {Response("bad_json", 200, <<>>)}

FileResponses ==
    {Response("ok", 200, "new"), Response("ok", 204, "")} \cup Failures("")

InstallRemotes ==
    { [index |-> Response("ok", 200, c),
       package |-> (A :> m) @@ (B :> Response("http_error", 404, <<>>)),
       file |-> (FileUrl(H1) :> r) @@ (FileUrl(H2) :> q)]
      : c \in Catalogs, m \in ManifestResponses, r \in FileResponses,
        q \in {Response("ok", 200, "two"), Response("http_error", 500, "")} }
    \cup
    { [index |-> i,
       package |-> (A :> Response("ok", 200, <<>>))
                       @@ (B :> Response("http_error", 404, <<>>)),
       file |-> (FileUrl(H1) :> Response("ok", 200, "new"))]
      : i \in Failures({}) \cup {Response("bad_json", 200, {})} }

\* /lib empty, /lib holding an older a.py, and no /lib at all
InstallTrees ==
    { (Lib :> "dir"),
      (Lib :> "dir") @@ (Join(Lib, Path(<<>>, Py(A), FALSE)) :> "old"),
      (Lib :> "absent") }

InstallScripts ==
    { [n \in 1..m |-> [cmd |-> "install", packages |-> <<A>>, directory |-> Lib]]
      : m \in 1..MaxCommands }

InitProcess ==
    /\ command = <<>>
    /\ commands = <<>>
    /\ is_started = FALSE
    /\ ran = 0
    /\ pc = "idle"
    /\ call = NoFrame
    /\ returned = [status |-> "none", exc |-> NoExc, tasks |-> <<>>, start |-> fs]
    /\ log = <<>>
    /\ cc = NoFrame
    /\ clog = <<>>
    /\ xlog = <<>>

InitInstall ==
    /\ remote \in InstallRemotes
    /\ fs \in InstallTrees
    /\ script \in InstallScripts
    /\ dl = [index |-> {}, cached |-> FALSE, stdlib |-> {}, entries |-> <<>>,
             k |-> 0, requests |-> <<>>, written |-> {}, swallowed |-> NoExc,
             tests |-> <<>>,
             fs0 |-> fs]
    /\ InitProcess

NextInstall ==
    \/ InstallStart
    \/ InstallItem
    \/ DlIndex
    \/ DlTarget
    \/ DlManifest
    \/ DlEntry
    \/ InstallHandle
    \/ InstallReturn

SpecInstall == InitInstall /\ [][NextInstall]_vars

----------------------------------------------------------------------------
(* What the claims about install are stated against: the remote itself, read
   without the operators of the downloader *)

Items == {log[n] : n \in DOMAIN log}

CatalogAnswered == remote.index.kind = "ok"

\* the names the catalog lists under the standard-library prefix
CatalogStdlib ==
    {e.name : e \in {x \in remote.index.body :
                        /\ "path" \in DOMAIN x
                        /\ x.path # <<>>
                        /\ x.path[1] = "python-stdlib"}}

\* the owner of a manifest path: its parent directory, or the file name
\* without its extension
Owner(path) ==
    IF path.dirs # <<>> THEN path.dirs[Len(path.dirs)]
    ELSE IF Len(path.name) > 2 /\ path.name[Len(path.name) - 1] = "."
         THEN SubSeq(path.name, 1, Len(path.name) - 2)
         ELSE path.name

ManifestOf(item) == remote.package[item.package]

\* the download got as far as asking for the manifest
AskedManifest(item) ==
    \E n \in DOMAIN item.requests : item.requests[n] = PackageUrl(item.package)

FileRequests(item) ==
    {n \in DOMAIN item.requests : item.requests[n].endpoint = "file"}

\* the entries of the manifest that are to be downloaded, in order
Downloadable(item) ==
    SelectSeq(ManifestOf(item).body, LAMBDA e : Owner(e.path) \notin CatalogStdlib)

TaskOf(item) == command[item.task]

InErrorState(t) == t.description = "Error" /\ ~t.finished /\ t.visible

StdlibConflict == Exc("FileExistsError", "stdlib")

PackageNotFound == Exc("URLError", "not_found")

\* C1: a package whose own name is in the standard library fails with
\* StandardLibraryConflict whatever manifest it has, and nothing is written.
C1_StdlibNameAlwaysConflicts ==
    \A item \in Items :
        ( /\ CatalogAnswered
          /\ item.package \in CatalogStdlib
          /\ AskedManifest(item)
          /\ ManifestOf(item).kind = "ok" )
        => /\ item.exc = StdlibConflict
           /\ item.written = {}
           /\ item.after = item.before

\* C2: a manifest request answered 404 ends the install with
\* PackageNotFoundError, no file written, and the package's task in the Error
\* state (description "Error", not finished, visible).
C2_NotFoundEndsInError ==
    \A item \in Items :
        ( /\ AskedManifest(item)
          /\ ManifestOf(item) = Response("http_error", 404, <<>>) )
        => /\ item.exc = PackageNotFound
           /\ item.written = {}
           /\ item.after = item.before
           /\ InErrorState(TaskOf(item))
           /\ (returned.status = "returned" /\ item.cmd = ran
                  => InErrorState(returned.tasks[item.task]))

C2_Witness ==
    /\ returned.status = "returned"
    /\ \E item \in Items :
          /\ item.cmd = ran
          /\ AskedManifest(item)
          /\ ManifestOf(item).status = 404
          /\ FileRequests(item) = {}

\* the last downloadable entry written to a node decides its bytes
RECURSIVE Mirror(_, _)
Mirror(f, todo) ==
    IF todo = <<>> THEN f
    ELSE Mirror((Join(Lib, todo[1].path) :> Serve(FileUrl(todo[1].hash)).body) @@ f,
                Tail(todo))

\* C3: an install that returns without error (task "Installed", finished) has
\* written exactly the manifest entries whose owner is not in the standard
\* library, each with the bytes served at file/<hash[:2]>/<hash>.
C3_InstalledWritesExactlyDownloadable ==
    \A item \in Items :
        ( /\ item.exc = NoExc
          /\ TaskOf(item).description = "Installed"
          /\ TaskOf(item).finished )
        => LET todo == Downloadable(item)
               nodes == {Join(Lib, todo[n].path) : n \in DOMAIN todo}
           IN  /\ item.written = nodes
               /\ \A node \in nodes :
                     Kind(item.after, node) = Kind(Mirror(item.before, todo), node)
               /\ \A node \in DOMAIN item.after \ nodes :
                     IsFile(item.after, node) =>
                         Kind(item.after, node) = Kind(item.before, node)

\* C4: when every owner in the manifest is a standard-library name other than
\* the requested package, install succeeds, writes nothing and asks the content
\* store for nothing.
C4_AllStdlibOwnersWritesNothing ==
    \A item \in Items :
        ( /\ CatalogAnswered
          /\ AskedManifest(item)
          /\ ManifestOf(item).kind = "ok"
          /\ \A n \in DOMAIN ManifestOf(item).body :
                /\ Owner(ManifestOf(item).body[n].path) \in CatalogStdlib
                /\ Owner(ManifestOf(item).body[n].path) # item.package )
        => /\ item.exc = NoExc
           /\ item.written = {}
           /\ item.after = item.before
           /\ FileRequests(item) = {}
           /\ TaskOf(item).description = "Installed"
           /\ TaskOf(item).finished

C4_Witness ==
    \E item \in Items :
        /\ CatalogAnswered
        /\ AskedManifest(item)
        /\ ManifestOf(item).kind = "ok"
        /\ Len(ManifestOf(item).body) = MaxManifest
        /\ \A n \in DOMAIN ManifestOf(item).body :
              /\ Owner(ManifestOf(item).body[n].path) \in CatalogStdlib
              /\ Owner(ManifestOf(item).body[n].path) # item.package
        /\ TaskOf(item).description = "Installed"

\* C5: installing the same package into the same directory again, the remote
\* unchanged, leaves the directory as the first run left it, whatever it held
\* at first and also when the runs fail part-way.
C5_InstallTwiceIdempotent ==
    \A first, second \in Items :
        ( /\ second.cmd = first.cmd + 1
          /\ second.package = first.package )
        => second.after = first.after

C5_Witness ==
    \E first, second \in Items :
        /\ second.cmd = first.cmd + 1
        /\ second.package = first.package
        /\ first.written # {}
        /\ first.after # first.before
        /\ first.exc # NoExc

\* the install was asked to write into a directory that does not exist
TargetMissing(item) == ~IsDir(item.before, Lib)

ConfigurationError == Exc("FileNotFoundError", "target")

\* C11: with the target directory missing, install fails with
\* ConfigurationError whatever the remote answers, also when it cannot be
\* reached; the manifest and the content store are never asked and nothing is
\* written.
C11_MissingTargetFailsFirst ==
    \A item \in Items :
        TargetMissing(item)
        => /\ item.exc = ConfigurationError
           /\ \A n \in DOMAIN item.requests :
                 item.requests[n].endpoint \notin {"package", "file"}
           /\ item.written = {}
           /\ item.after = item.before

----------------------------------------------------------------------------
(* The batch sessions checked: one install command over the packages a and b,
   in either order, into an existing /lib; b has a manifest of one file *)

BatchRemotes ==
    { [r EXCEPT !.package[B] = m]
      : r \in InstallRemotes,
        m \in { Response("ok", 200, << Entry(Path(<<>>, Py(B), FALSE), H2) >>),
                Response("http_error", 404, <<>>) } }

BatchScripts ==
    { << [cmd |-> "install", packages |-> ps, directory |-> Lib] >>
      : ps \in { <<A, B>>, <<B, A>> } }

InitBatch ==
    /\ remote \in BatchRemotes
    /\ fs = (Lib :> "dir")
    /\ script \in BatchScripts
    /\ dl = [index |-> {}, cached |-> FALSE, stdlib |-> {}, entries |-> <<>>,
             k |-> 0, requests |-> <<>>, written |-> {}, swallowed |-> NoExc,
             tests |-> <<>>,
             fs0 |-> fs]
    /\ InitProcess

SpecBatch == InitBatch /\ [][NextInstall]_vars

\* the download of the package ended with an error, raised or printed
Failed(item) == item.exc # NoExc \/ item.swallowed # NoExc

\* every package of every command that has ended was attempted
AllAttempted ==
    \A c \in 1..ran : \A n \in DOMAIN script[c].packages :
        \E item \in Items : item.cmd = c /\ item.package = script[c].packages[n]

\* C12: whatever makes the install of one package of the list fail, its task
\* ends in the Error state (description "Error", not finished, visible) and
\* every later package of the list is still attempted.
C12_FailureIsolatedPerPackage ==
    /\ \A item \in Items : Failed(item) => InErrorState(TaskOf(item))
    /\ pc = "idle" => AllAttempted

----------------------------------------------------------------------------
(* The sessions in which an install is cut short: package "a" with a manifest
   of up to MaxEntries entries naming a.py and b/a.py, in any order and with
   repetitions (files of equal content share their hash), each of the two
   content addresses answering in any way *)

AbortEntries ==
    { Entry(Path(<<>>, Py(A), FALSE), H1), Entry(Path(<<B>>, Py(A), FALSE), H2) }

AbortRemotes ==
    { [index |-> Response("ok", 200, c),
       package |-> (A :> Response("ok", 200, m))
                       @@ (B :> Response("http_error", 404, <<>>)),
       file |-> (FileUrl(H1) :> r) @@ (FileUrl(H2) :> q)]
      : c \in Catalogs, m \in SeqsUpTo(AbortEntries, MaxEntries),
        r \in FileResponses, q \in FileResponses }

InitAbort ==
    /\ remote \in AbortRemotes
    /\ fs \in { (Lib :> "dir"),
                (Lib :> "dir") @@ (Join(Lib, Path(<<>>, Py(A), FALSE)) :> "old") }
    /\ script = << [cmd |-> "install", packages |-> <<A>>, directory |-> Lib] >>
    /\ dl = [index |-> {}, cached |-> FALSE, stdlib |-> {}, entries |-> <<>>,
             k |-> 0, requests |-> <<>>, written |-> {}, swallowed |-> NoExc,
             tests |-> <<>>,
             fs0 |-> fs]
    /\ InitProcess

SpecAbort == InitAbort /\ [][NextInstall]_vars

\* what the content store answers at a content address
ContentAnswer(url) ==
    IF url \in DOMAIN remote.file THEN remote.file[url]
    ELSE Response("http_error", 404, "")

TransportFailure(resp) == resp.kind \in {"http_error", "url_error", "read_error"}

\* the content requests of the install that met a transport failure
FailedContentRequests(item) ==
    {n \in FileRequests(item) : TransportFailure(ContentAnswer(item.requests[n]))}

\* the downloadable entries before the k-th, k being the number of content
\* requests made, that were answered with a body to write
EarlierWritten(item) ==
    SelectSeq(SubSeq(Downloadable(item), 1, Cardinality(FileRequests(item)) - 1),
              LAMBDA e : /\ ContentAnswer(FileUrl(e.hash)).kind = "ok"
                         /\ ContentAnswer(FileUrl(e.hash)).status = 200)

\* the install stopped at the failed request, kept what it had written and
\* reported a failure
AbortedAtFailure(item) ==
    /\ FailedContentRequests(item) = {Len(item.requests)}
    /\ item.exc # NoExc
    /\ item.swallowed = NoExc
    /\ item.written
          = {Join(Lib, EarlierWritten(item)[n].path) : n \in DOMAIN EarlierWritten(item)}
    /\ \A node \in item.written :
          /\ IsFile(item.after, node)
          /\ Kind(item.after, node)
                = Kind(Mirror(item.before, EarlierWritten(item)), node)

\* no url is asked for twice within one install
EachUrlOnce(item) ==
    \A m, n \in DOMAIN item.requests :
        item.requests[m] = item.requests[n] => m = n

\* C19: when the content request of the k-th downloadable entry meets a
\* transport failure, install makes no later request, leaves the files of the
\* earlier entries in place, reports a failure, and has requested each catalog,
\* manifest and content url at most once.
C19_AbortKeepsEarlierEachUrlOnce ==
    \A item \in Items :
        FailedContentRequests(item) # {}
        => AbortedAtFailure(item) /\ EachUrlOnce(item)

\* TransportError: the failure reported with its code and reason
TransportError == Exc("URLError", "unknown")

ManifestNotFound(item) ==
    /\ AskedManifest(item)
    /\ ManifestOf(item).kind = "http_error"
    /\ ManifestOf(item).status = 404

\* the manifest request met a transport failure other than a 404
ManifestFailedOtherwise(item) ==
    /\ AskedManifest(item)
    /\ TransportFailure(ManifestOf(item))
    /\ ~ManifestNotFound(item)

\* C20: install reports PackageNotFoundError exactly when the manifest request
\* was answered 404; a manifest request failing with another status or with no
\* status, and any failure (a 404 too) of a content request, is reported as
\* TransportError with its code and reason.
C20_NotFoundOnlyForManifest404 ==
    \A item \in Items :
        /\ item.exc = PackageNotFound <=> ManifestNotFound(item)
        /\ (ManifestFailedOtherwise(item) \/ FailedContentRequests(item) # {})
              => item.exc = TransportError

----------------------------------------------------------------------------
(* The compile sessions checked: m.py alone, or m.py and sub/n.py, compiled
   once or again; an artifact of m.py may already lie beside it *)

NoRemote ==
    [index |-> Response("ok", 200, {}), package |-> <<>>, file |-> <<>>]

M == Package \o <<Py(<<"m">>)>>

N == Package \o << <<"sub">>, Py(<<"n">>) >>

Dirs(nodes) == [node \in nodes |-> "dir"]

Sources ==
    Dirs({Root, Package, Package \o << <<"sub">> >>}) @@ (M :> "py1") @@ (N :> "py2")

CompileTrees ==
    { Sources,
      (micropython_version(M) :> "mpy1") @@ Sources,
      (micropython_version(M) :> "old") @@ Sources }

CompileScripts ==
    UNION { [1..m -> {[cmd |-> "compile", targets |-> t] : t \in {<<M>>, <<M, N>>}}]
            : m \in 1..MaxCommands }

InitCompile ==
    /\ remote = NoRemote
    /\ fs \in CompileTrees
    /\ script \in CompileScripts
    /\ dl = [index |-> {}, cached |-> FALSE, stdlib |-> {}, entries |-> <<>>,
             k |-> 0, requests |-> <<>>, written |-> {}, swallowed |-> NoExc,
             tests |-> <<>>,
             fs0 |-> fs]
    /\ InitProcess

NextCompile ==
    \/ CompileStart
    \/ CompileItem
    \/ CompileRun
    \/ Materialise
    \/ CompilePoll
    \/ CompileHandle
    \/ CompileReturn

SpecCompile == InitCompile /\ [][NextCompile]_vars

Targets == {clog[n] : n \in DOMAIN clog}

\* the command of a history record has ended
Ended(rec) == rec.cmd <= ran

\* same directory, same stem, suffix .mpy
ArtifactOf(source, node) ==
    /\ Len(node) = Len(source)
    /\ SubSeq(node, 1, Len(node) - 1) = SubSeq(source, 1, Len(source) - 1)
    /\ node[Len(node)] = SubSeq(source[Len(source)], 1, Len(source[Len(source)]) - 2)
                            \o <<".", "mpy">>

\* C6: a target whose compiler exits with code 0 in time and whose artifact
\* materialises has the artifact beside it (same stem, suffix .mpy), and its
\* task ends "Compiled", finished with completed = total = 1, labelled with the
\* target, and not visible once compile has returned.
C6_AcceptedTargetEndsDone ==
    \A t \in Targets :
        t.exc = NoExc =>
            /\ \E node \in DOMAIN t.after :
                  ArtifactOf(t.target, node) /\ Kind(t.after, node) # "absent"
            /\ command[t.task].description = "Compiled"
            /\ command[t.task].finished
            /\ command[t.task].completed = 1
            /\ command[t.task].total = 1
            /\ command[t.task].item = SubSeq(t.target, Len(Package) + 1, Len(t.target))
            /\ Ended(t) => /\ ~command[t.task].visible
                           /\ returned.status = "returned"
                           /\ t.cmd = ran => ~returned.tasks[t.task].visible

C6_Witness ==
    \E t \in Targets :
        /\ t.exc = NoExc
        /\ t.polled
        /\ Kind(t.before, micropython_version(t.target)) = "absent"
        /\ Ended(t)
        /\ \E u \in Targets : u.cmd = t.cmd /\ u.exc # NoExc

\* C7: a target whose compiler exits with a nonzero code ends in the Error
\* state (description "Error", not finished, visible also after compile has
\* returned); compile never waits for its artifact, no file appears, and the
\* running total is not advanced.
C7_RejectedTargetEndsError ==
    \A t \in Targets :
        t.exc.type = "CompilationError" =>
            /\ InErrorState(command[t.task])
            /\ (Ended(t) /\ t.cmd = ran => InErrorState(returned.tasks[t.task]))
            /\ ~t.polled
            /\ t.after = t.before
            /\ t.total_after = t.total_before

C7_Witness ==
    \E t \in Targets :
        /\ t.exc.type = "CompilationError"
        /\ Ended(t)
        /\ returned.status = "returned"
        /\ \E u \in Targets : u.cmd = t.cmd /\ u.exc = NoExc /\ u.total_after = 1

\* a compile command has just ended
AfterCompile ==
    /\ pc = "idle"
    /\ ran >= 1
    /\ script[ran].cmd = "compile"

\* the targets the command attempted, in the order it attempted them
AttemptsOf(c) == SelectSeq(clog, LAMBDA t : t.cmd = c)

AttemptedInListOrder ==
    AfterCompile
    => /\ returned.status = "returned"
       /\ [n \in DOMAIN AttemptsOf(ran) |-> AttemptsOf(ran)[n].target]
             = script[ran].targets

OneTaskPerTarget ==
    (AfterCompile /\ returned.status = "returned")
    => /\ Len(returned.tasks) = Len(script[ran].targets)
       /\ \A n \in DOMAIN script[ran].targets :
             n \in DOMAIN returned.tasks =>
                 returned.tasks[n].item
                     = SubSeq(script[ran].targets[n], Len(Package) + 1,
                              Len(script[ran].targets[n]))

\* C16: compile attempts its targets one at a time in list order, a failing
\* target (nonzero exit, timeout, any other exception) never stops the later
\* ones, and compile returns the task list with one task per target.
C16_EveryTargetAttemptedOneTaskEach == AttemptedInListOrder /\ OneTaskPerTarget

\* the states a compile task may end in: Done, Error, TimedOut
TerminalDescriptions == {"Compiled", "Error", "TimedOut"}

\* C17: a target whose compiler has not exited within the timeout leaves the
\* Running state for a terminal failure state (no longer described as
\* "Compiling"), is never marked done, stays visible after compile has returned,
\* and does not advance the running total; every compile task ends in one of
\* Done, Error or TimedOut.
C17_TimeoutEndsInFailureState ==
    /\ \A t \in Targets :
          t.exc.type = "TimeoutExpired"
          => /\ command[t.task].description \in {"Error", "TimedOut"}
             /\ ~command[t.task].finished
             /\ command[t.task].visible
             /\ t.total_after = t.total_before
    /\ \A t \in Targets : command[t.task].description \in TerminalDescriptions

\* the sessions in which termination is checked: m.py and sub/n.py compiled,
\* once or again
PollScripts ==
    { [n \in 1..m |-> [cmd |-> "compile", targets |-> <<M, N>>]]
      : m \in 1..MaxCommands }

InitPoll ==
    /\ remote = NoRemote
    /\ fs \in CompileTrees
    /\ script \in PollScripts
    /\ dl = [index |-> {}, cached |-> FALSE, stdlib |-> {}, entries |-> <<>>,
             k |-> 0, requests |-> <<>>, written |-> {}, swallowed |-> NoExc,
             tests |-> <<>>,
             fs0 |-> fs]
    /\ InitProcess

\* compile with its scheduling: the interpreter runs the next statement,
\* communicate(timeout=5) returns or raises within the timeout, and the
\* artifact of a compiler that exited with code 0 eventually appears
SpecCompileLive ==
    /\ InitPoll
    /\ [][NextCompile]_vars
    /\ WF_vars(CompileItem)
    /\ WF_vars(CompileRun)
    /\ WF_vars(Materialise)
    /\ WF_vars(CompilePoll)
    /\ WF_vars(CompileHandle)
    /\ WF_vars(CompileReturn)

Waiting == pc = "compile_poll"

\* the file the poll looks for: the target with its suffix replaced by .mpy
ArtifactBesideTarget ==
    Front(Target) \o << SubSeq(Last(Target), 1, Len(Last(Target)) - 1) \o <<"mpy">> >>

ArtifactMissing == Kind(fs, ArtifactBesideTarget) = "absent"

\* a target is marked done only after the poll has seen its artifact
DoneOnlyWithArtifact ==
    \A t \in Targets :
        command[t.task].description = "Compiled"
        => /\ t.exc = NoExc
           /\ t.polled
           /\ \E node \in DOMAIN t.after :
                 ArtifactOf(t.target, node) /\ Kind(t.after, node) # "absent"

\* while the artifact is missing the command stays in the poll: no task is
\* touched, no target is finished, no command ends
BlockedWhileMissing ==
    (Waiting /\ ArtifactMissing)
    => /\ Waiting'
       /\ cc' = cc
       /\ command' = command
       /\ commands' = commands
       /\ clog' = clog
       /\ ran' = ran

\* once the compiler has exited with code 0, compile ends and the target's
\* task is done
EventuallyDone ==
    \A i \in DOMAIN <<M, N>> :
        (Waiting /\ cc.i = i)
        ~> ( /\ pc = "idle"
             /\ \E t \in Targets :
                   /\ t.cmd = ran
                   /\ t.target = script[ran].targets[i]
                   /\ t.polled
                   /\ command[t.task].description = "Compiled"
                   /\ command[t.task].finished )

\* C18: after exit code 0 the target is marked done only once its artifact
\* exists; the poll is unbounded, so while the artifact is missing nothing else
\* is processed and the task reaches no terminal state; if the artifact
\* eventually appears, compile eventually ends with the task done.
C18_PollBlocksUntilArtifact ==
    /\ []DoneOnlyWithArtifact
    /\ [][BlockedWhileMissing]_vars
    /\ EventuallyDone

C18_Witness ==
    /\ AfterCompile
    /\ \E t \in Targets :
          /\ t.cmd = ran
          /\ t.polled
          /\ Kind(t.before, micropython_version(t.target)) = "absent"
          /\ command[t.task].description = "Compiled"
          /\ \E u \in Targets : u.cmd = t.cmd /\ u.task > t.task

----------------------------------------------------------------------------
(* The export sessions checked: a package holding sub/m.py and any of its
   artifact sub/m.mpy, a sub/m.pyc, a README, a directory p.d, a second source
   n.py and its artifact n.mpy, exported once or again, each time with or
   without --precompiled *)

S == Package \o << <<"sub">>, Py(<<"m">>) >>

Optional ==
    (micropython_version(S) :> "mpy1")
        @@ (Package \o << <<"sub">>, <<"m", ".", "pyc">> >> :> "pyc")
        @@ (Package \o << <<"README">> >> :> "text")
        @@ (Package \o << <<"p", ".", "d">> >> :> "dir")
        @@ (Package \o <<Py(<<"n">>)>> :> "py2")
        @@ (micropython_version(Package \o <<Py(<<"n">>)>>) :> "mpy2")

ExportTrees ==
    { [node \in some |-> Optional[node]]
          @@ Dirs({Root, Package, Package \o << <<"sub">> >>}) @@ (S :> "py1")
      : some \in SUBSET DOMAIN Optional }

ExportScripts ==
    UNION { [1..m -> {[cmd |-> "export", precompiled |-> b] : b \in BOOLEAN}]
            : m \in 1..MaxCommands }

InitExport ==
    /\ remote = NoRemote
    /\ fs \in ExportTrees
    /\ script \in ExportScripts
    /\ dl = [index |-> {}, cached |-> FALSE, stdlib |-> {}, entries |-> <<>>,
             k |-> 0, requests |-> <<>>, written |-> {}, swallowed |-> NoExc,
             tests |-> <<>>,
             fs0 |-> fs]
    /\ InitProcess

NextExport ==
    \/ ExportStart
    \/ ExportItem
    \/ ExportCompiled
    \/ ExportReturn
    \/ CompileItem
    \/ CompileRun
    \/ Materialise
    \/ CompilePoll
    \/ CompileHandle
    \/ CompileReturn

SpecExport == InitExport /\ [][NextExport]_vars

Exported == {xlog[n] : n \in DOMAIN xlog}

\* an export command has just ended: `returned` tells how
AfterExport(precompiled) ==
    /\ pc = "idle"
    /\ ran >= 1
    /\ script[ran].cmd = "export"
    /\ script[ran].precompiled = precompiled

IsSource(node) ==
    /\ Len(node[Len(node)]) >= 2
    /\ SubSeq(node[Len(node)], Len(node[Len(node)]) - 1, Len(node[Len(node)]))
          = <<".", "py">>

IsBuildArtifact(node) ==
    /\ Len(node[Len(node)]) >= 2
    /\ SubSeq(node[Len(node)], Len(node[Len(node)]) - 1, Len(node[Len(node)]))
          = <<".", "pyc">>

FilesUnder(f, base) == {node \in DOMAIN f : Under(node, base) /\ IsFile(f, node)}

\* every source file of the package has its artifact beside it
AllPrecompiled(f) ==
    \A node \in FilesUnder(f, Package) :
        IsSource(node) =>
            \E other \in FilesUnder(f, Package) : ArtifactOf(node, other)

\* C8: a precompiled export of a project whose every source file has its
\* artifact beside it invokes the compiler not once and leaves no source file
\* in the export tree, also when an earlier export had left sources there.
C8_PrecompiledProjectExportsNoSource ==
    (AfterExport(TRUE) /\ AllPrecompiled(returned.start))
    => /\ \A t \in Targets : t.cmd # ran
       /\ \A x \in Exported : x.cmd = ran => x.invoked = 0
       /\ \A node \in FilesUnder(fs, Export) : ~IsSource(node)

C8_Witness ==
    /\ AfterExport(TRUE)
    /\ AllPrecompiled(returned.start)
    /\ returned.status = "returned"
    /\ \E node \in FilesUnder(returned.start, Export) : IsSource(node)
    /\ \E x \in Exported : x.cmd = ran /\ x.branch = "skipped"

\* C9: after an export without --precompiled the export tree mirrors the
\* package directory byte for byte: every regular file other than the *.pyc
\* is at the same relative path with the same bytes, and nothing else is there.
C9_ExportMirrorsPackage ==
    (AfterExport(FALSE) /\ returned.status = "returned")
    => /\ \A node \in FilesUnder(fs, Package) :
             ~IsBuildArtifact(node) =>
                 Kind(fs, Export \o SubSeq(node, Len(Package) + 1, Len(node)))
                     = Kind(fs, node)
       /\ \A node \in FilesUnder(fs, Export) :
             /\ ~IsBuildArtifact(node)
             /\ Kind(fs, Package \o SubSeq(node, Len(Export) + 1, Len(node)))
                     = Kind(fs, node)

\* C10: when an export without --precompiled returns, every task of the list
\* it returns is "Exported", finished and not visible, and names a regular
\* file under the export root.
C10_ReturnedTasksAllExported ==
    (AfterExport(FALSE) /\ returned.status = "returned")
    => \A id \in DOMAIN returned.tasks :
          /\ returned.tasks[id].description = "Exported"
          /\ returned.tasks[id].finished
          /\ ~returned.tasks[id].visible
          /\ IsFile(fs, Export \o returned.tasks[id].item)

----------------------------------------------------------------------------
(* The items of a precompiled export, read from the history *)

\* the artifact that belongs beside a source, and the two places under the
\* export root where the source may end up
ArtifactBeside(source) ==
    Front(source) \o << SubSeq(Last(source), 1, Len(Last(source)) - 1) \o <<"mpy">> >>

SourceDestination(source) ==
    Export \o SubSeq(source, Len(Package) + 1, Len(source))

ArtifactDestination(source) == ArtifactBeside(SourceDestination(source))

\* a recognized source file handled by an export --precompiled
PrecompiledSource(x) == x.precompiled /\ IsSource(x.item)

\* no artifact beside the source when the item began, and none after the compiler
\* had been called for it
CompileYieldedNothing(x) ==
    /\ PrecompiledSource(x)
    /\ x.invoked >= 1
    /\ Kind(x.before, ArtifactBeside(x.item)) = "absent"
    /\ Kind(x.after, ArtifactBeside(x.item)) = "absent"

\* C13: in a precompiled export, a source with no artifact beside it whose
\* compilation yields none ends in the Error state (description "Error", not
\* finished, visible) and neither its source-suffixed nor its artifact-suffixed
\* destination is written.
C13_FailedCompileWritesNothing ==
    \A x \in Exported :
        CompileYieldedNothing(x)
        => /\ InErrorState(command[x.task])
           /\ Kind(x.after, SourceDestination(x.item)) = "absent"
           /\ Kind(x.after, ArtifactDestination(x.item))
                 = Kind(x.before, ArtifactDestination(x.item))

\* the artifact was beside the source when the item began
ArtifactWasBeside(x) ==
    /\ PrecompiledSource(x)
    /\ IsFile(x.before, ArtifactBeside(x.item))

\* C14: in a precompiled export, a source whose artifact already sits beside it
\* has the artifact copied to its artifact-suffixed destination by the
\* processing of that item, the compiler is not invoked, and the item's task
\* ends finished, and not visible once the command has returned.
C14_ArtifactBesideIsCopiedAndDone ==
    \A x \in Exported :
        ArtifactWasBeside(x)
        => /\ x.invoked = 0
           /\ Kind(x.after, ArtifactDestination(x.item))
                 = Kind(x.before, ArtifactBeside(x.item))
           /\ command[x.task].finished
           /\ (pc = "idle" /\ x.cmd <= ran /\ returned.status = "returned")
                 => ~command[x.task].visible

\* the item wrote the artifact-suffixed destination of the source: as the
\* source's own item after its compilation, or as the item of the artifact
WroteArtifactDestination(x, source) ==
    /\ x.precompiled
    /\ x.exc = NoExc
    /\ \/ x.branch = "compiled" /\ x.item = source
       \/ x.branch = "raw" /\ x.item = ArtifactBeside(source)

\* a source-suffixed destination is gone by the time the artifact-suffixed one
\* is written
StaleRemovedFirst ==
    \A x \in Exported :
        \A source \in {node \in FilesUnder(x.before, Package) : IsSource(node)} :
            WroteArtifactDestination(x, source)
            => Kind(x.after, SourceDestination(source)) = "absent"

\* no artifact beside the source when the item began, one after the compiler
\* had been called for it
FallbackCompiled(x) ==
    /\ PrecompiledSource(x)
    /\ Kind(x.before, ArtifactBeside(x.item)) = "absent"
    /\ IsFile(x.after, ArtifactBeside(x.item))

Invocations(x) == {n \in DOMAIN clog : clog[n].cmd = x.cmd /\ clog[n].target = x.item}

\* the outcome of an item whose fallback compilation produced the artifact
FallbackExported ==
    \A x \in Exported :
        FallbackCompiled(x)
        => /\ Kind(x.after, ArtifactDestination(x.item))
                 = Kind(x.after, ArtifactBeside(x.item))
           /\ Kind(x.after, SourceDestination(x.item)) = "absent"
           /\ Cardinality(Invocations(x)) = 1
           /\ command[x.task].item
                 = SubSeq(ArtifactBeside(x.item), Len(Package) + 1, Len(x.item))
           /\ command[x.task].description = "Exported/Compiled"
           /\ command[x.task].finished
           /\ (AfterExport(TRUE) /\ x.cmd = ran /\ returned.status = "returned")
                 => /\ Kind(fs, ArtifactDestination(x.item))
                          = Kind(fs, ArtifactBeside(x.item))
                    /\ Kind(fs, SourceDestination(x.item)) = "absent"
                    /\ ~command[x.task].visible

\* C15: in a precompiled export, the source-suffixed destination a previous
\* run left for a source is removed before an artifact-suffixed destination of
\* that source is written; and a source with no artifact beforehand whose
\* fallback compilation produces one ends with the artifact's bytes at the
\* artifact-suffixed destination, no source-suffixed destination, exactly one
\* compiler invocation, and its relabelled task done.
C15_StaleRemovedThenArtifactExported == StaleRemovedFirst /\ FallbackExported

----------------------------------------------------------------------------
(* The sessions in which the places written are checked: one command, either
   an install of "a" whose manifest names an absolute path, a path through
   "..", or a path below the target, or an export of the package *)

Up == <<"..">>

\* /a.py, ../x.py and b/a.py
PlaceEntries ==
    { Entry(Path(<<>>, Py(A), TRUE), H1),
      Entry(Path(<<Up>>, Py(<<"x">>), FALSE), H1),
      Entry(Path(<<B>>, Py(A), FALSE), H2) }

PlaceRemotes ==
    { [index |-> Response("ok", 200, c),
       package |-> (A :> Response("ok", 200, m))
                       @@ (B :> Response("http_error", 404, <<>>)),
       file |-> (FileUrl(H1) :> Response("ok", 200, "new"))
                    @@ (FileUrl(H2) :> Response("ok", 200, "two"))]
      : c \in Catalogs, m \in SeqsUpTo(PlaceEntries, MaxManifest) }

InitPlaces ==
    /\ \/ /\ script = << [cmd |-> "install", packages |-> <<A>>,
                          directory |-> Lib] >>
          /\ remote \in PlaceRemotes
          /\ fs = (Lib :> "dir")
       \/ /\ script \in { << [cmd |-> "export", precompiled |-> b] >>
                          : b \in BOOLEAN }
          /\ remote = NoRemote
          /\ fs \in ExportTrees
    /\ dl = [index |-> {}, cached |-> FALSE, stdlib |-> {}, entries |-> <<>>,
             k |-> 0, requests |-> <<>>, written |-> {}, swallowed |-> NoExc,
             tests |-> <<>>,
             fs0 |-> fs]
    /\ InitProcess

NextPlaces == NextInstall \/ NextExport

SpecPlaces == InitPlaces /\ [][NextPlaces]_vars

\* the regular files that one tree has and the other has not, or has with
\* other bytes: created, overwritten or deleted in between
FilesChanged(before, after) ==
    {node \in DOMAIN before \cup DOMAIN after :
        /\ Kind(before, node) # Kind(after, node)
        /\ IsFile(before, node) \/ IsFile(after, node)}

\* strictly below the directory
Below(node, directory) ==
    /\ Len(node) > Len(directory)
    /\ \A n \in DOMAIN directory : node[n] = directory[n]

\* C21: every file an install creates, overwrites or deletes lies under its
\* target directory, whatever relative path the manifest names (absolute, or
\* through ".."), and every file an export creates, overwrites or deletes,
\* the writes of a fallback compilation included, lies under the export
\* directory.
C21_WritesStayInsideTargetOrExport ==
    /\ \A item \in Items :
          \A node \in FilesChanged(item.before, item.after) : Below(node, Lib)
    /\ \A x \in Exported :
          \A node \in FilesChanged(x.before, x.after) : Below(node, Export)

----------------------------------------------------------------------------
(* The sessions in which the standard-library set is checked: the catalog
   lists each of "a" and "b" under the standard-library prefix, under another
   path, or with no path at all *)

Listed(name, how) ==
    CASE how = "stdlib" -> [name |-> name, path |-> <<"python-stdlib", name>>]
      [] how = "other" -> [name |-> name, path |-> <<"micropython", name>>]
      [] OTHER -> [name |-> name]

ListedCatalogs ==
    { {Listed(A, x), Listed(B, y)} : x, y \in {"stdlib", "other", "none"} }

ListedRemotes ==
    { [index |-> Response("ok", 200, c),
       package |-> (A :> Response("ok", 200, m))
                       @@ (B :> Response("http_error", 404, <<>>)),
       file |-> (FileUrl(H1) :> Response("ok", 200, "new"))
                    @@ (FileUrl(H2) :> Response("ok", 200, "two"))]
      : c \in ListedCatalogs, m \in SeqsUpTo(InstallEntries, MaxManifest) }

InitCatalog ==
    /\ remote \in ListedRemotes
    /\ fs = (Lib :> "dir")
    /\ script = << [cmd |-> "install", packages |-> <<A>>, directory |-> Lib] >>
    /\ dl = [index |-> {}, cached |-> FALSE, stdlib |-> {}, entries |-> <<>>,
             k |-> 0, requests |-> <<>>, written |-> {}, swallowed |-> NoExc,
             tests |-> <<>>, fs0 |-> fs]
    /\ InitProcess

SpecCatalog == InitCatalog /\ [][NextInstall]_vars

\* the positions of the requests of one kind among those of an install
RequestsTo(item, endpoint) ==
    {n \in DOMAIN item.requests : item.requests[n].endpoint = endpoint}

\* C22: within one install the whole catalog is fetched, once, before any
\* manifest or content request; every standard-library membership test uses
\* the same set, which is exactly the names of the catalog entries whose path
\* begins with the standard-library prefix (an entry without a path is no
\* member); and no content request is made before a test has determined it.
C22_StdlibSetFromWholeCatalogFirst ==
    \A item \in Items :
        /\ item.requests # <<>> => RequestsTo(item, "index") = {1}
        /\ \A n \in DOMAIN item.tests : item.tests[n].stdlib = CatalogStdlib
        /\ item.cached => item.stdlib = CatalogStdlib
        /\ Cardinality(RequestsTo(item, "file")) <= Len(item.tests)
        /\ RequestsTo(item, "file") # {} => item.cached

C22_Witness ==
    \E item \in Items :
        /\ Len(item.tests) = MaxManifest
        /\ RequestsTo(item, "file") # {}
        /\ CatalogStdlib # {}
        /\ \E x \in remote.index.body : "path" \notin DOMAIN x

----------------------------------------------------------------------------
(* The sessions in which the owner of a manifest path is checked: file names
   with one extension, with the extension twice, with two extensions and with
   none, at the top of the manifest or in a directory *)

Named(stem) == stem \o <<".", "py">>

\* a.py, a.py.py, a.tar.py, a, b/a.py.py and b/a
OwnerEntries ==
    { Entry(Path(<<>>, Named(A), FALSE), H1),
      Entry(Path(<<>>, Named(Named(A)), FALSE), H1),
      Entry(Path(<<>>, Named(<<"a", ".", "tar">>), FALSE), H1),
      Entry(Path(<<>>, A, FALSE), H1),
      Entry(Path(<<B>>, Named(Named(A)), FALSE), H2),
      Entry(Path(<<B>>, A, FALSE), H2) }

OwnerRemotes ==
    { [index |-> Response("ok", 200, c),
       package |-> (A :> Response("ok", 200, m))
                       @@ (B :> Response("http_error", 404, <<>>)),
       file |-> (FileUrl(H1) :> Response("ok", 200, "new"))
                    @@ (FileUrl(H2) :> Response("ok", 200, "two"))]
      : c \in Catalogs, m \in SeqsUpTo(OwnerEntries, MaxManifest) }

InitOwner ==
    /\ remote \in OwnerRemotes
    /\ fs = (Lib :> "dir")
    /\ script = << [cmd |-> "install", packages |-> <<A>>, directory |-> Lib] >>
    /\ dl = [index |-> {}, cached |-> FALSE, stdlib |-> {}, entries |-> <<>>,
             k |-> 0, requests |-> <<>>, written |-> {}, swallowed |-> NoExc,
             tests |-> <<>>, fs0 |-> fs]
    /\ InitProcess

SpecOwner == InitOwner /\ [][NextInstall]_vars

\* C23: the owning package name install derives for a manifest path is the
\* file name with its final extension stripped when the path has no parent
\* directory, and the name of the parent directory otherwise, also for names
\* in which the extension occurs more than once and for names without one.
C23_OwnerIsStemOrParent ==
    \A item \in Items :
        \A n \in DOMAIN item.tests :
            item.tests[n].name = Owner(item.tests[n].path)

----------------------------------------------------------------------------
(* The sessions in which the running total is checked: an install of two
   packages, or up to MaxCommands commands, each an export, a precompiled
   export or a compile of sub/m.py, over a package holding sub/m.py and any
   of sub/m.mpy, n.py and n.mpy *)

TotalsTrees ==
    { [node \in some |-> Optional[node]]
          @@ Dirs({Root, Package, Package \o << <<"sub">> >>}) @@ (S :> "py1")
      : some \in SUBSET { micropython_version(S), Package \o <<Py(<<"n">>)>>,
                          micropython_version(Package \o <<Py(<<"n">>)>>) } }

TotalsCommands ==
    { [cmd |-> "export", precompiled |-> b] : b \in BOOLEAN }
        \cup { [cmd |-> "compile", targets |-> <<S>>] }

TotalsScripts == UNION { [1..m -> TotalsCommands] : m \in 1..MaxCommands }

InitTotals ==
    /\ \/ /\ script \in BatchScripts
          /\ remote \in BatchRemotes
          /\ fs = (Lib :> "dir")
       \/ /\ script \in TotalsScripts
          /\ remote = NoRemote
          /\ fs \in TotalsTrees
    /\ dl = [index |-> {}, cached |-> FALSE, stdlib |-> {}, entries |-> <<>>,
             k |-> 0, requests |-> <<>>, written |-> {}, swallowed |-> NoExc,
             tests |-> <<>>, fs0 |-> fs]
    /\ InitProcess

NextTotals == NextInstall \/ CompileStart \/ NextExport

SpecTotals == InitTotals /\ [][NextTotals]_vars

\* the running-total task of the outermost command in progress, 0 when none is
RunningTotal ==
    IF call.name \in {"install", "export"} THEN call.commands_id
    ELSE IF cc.name = "compile" THEN cc.commands_id
    ELSE 0

\* the items this step has finished with: the task of each, and whether it is
\* a target of a compile that export called
FinishedNow ==
    (IF Len(log') > Len(log)
     THEN {[task |-> log'[Len(log')].task, nested |-> FALSE]} ELSE {})
    \cup
    (IF Len(clog') > Len(clog)
     THEN {[task |-> clog'[Len(clog')].task, nested |-> clog'[Len(clog')].nested]}
     ELSE {})
    \cup
    (IF Len(xlog') > Len(xlog)
     THEN {[task |-> xlog'[Len(xlog')].task, nested |-> FALSE]} ELSE {})

DoneDescriptions == {"Installed", "Compiled", "Exported", "Exported/Compiled"}

\* the items this step has ended Done, those of a nested compile left out
DoneNow ==
    {r \in FinishedNow :
        /\ ~r.nested
        /\ command'[r.task].description \in DoneDescriptions
        /\ command'[r.task].finished}

NeverAhead ==
    \A n \in DOMAIN commands : commands[n].completed <= commands[n].total

\* a step advances the running total of the outermost command by one for each
\* item it ends Done, and no other running total at all
AdvancedByDone ==
    \A n \in DOMAIN commands :
        commands'[n].completed - commands[n].completed
            = IF n = RunningTotal THEN Cardinality(DoneNow) ELSE 0

ExportEndsComplete ==
    (pc = "idle" /\ ran >= 1 /\ script[ran].cmd = "export"
        /\ returned.status = "returned")
    => commands[Len(commands)].completed = commands[Len(commands)].total

\* C24: the running total never has completed above total; it is advanced by
\* exactly 1 for each item that ends Done and by 0 for each item that ends
\* Error or TimedOut, never by a compile nested in export; and when export
\* returns completed equals total.
C24_RunningTotalCountsDone ==
    /\ []NeverAhead
    /\ [][AdvancedByDone]_vars
    /\ []ExportEndsComplete

C24_Witness ==
    /\ pc = "idle"
    /\ ran >= 2
    /\ script[ran].cmd = "export"
    /\ returned.status = "returned"
    /\ commands[Len(commands)].total >= 1
    /\ \E x, y \in Exported :
          /\ x.cmd = ran /\ x.branch = "skipped"
          /\ y.cmd = ran /\ y.invoked >= 1
    /\ \E t \in Targets : t.nested /\ t.exc = NoExc /\ t.cmd = ran

\* the per-item tasks that command number c created
CreatedBy(c) ==
    {r.task : r \in {i \in Items : i.cmd = c}}
        \cup {r.task : r \in {t \in Targets : t.cmd = c}}
        \cup {r.task : r \in {x \in Exported : x.cmd = c}}
        \cup {r.first_task : r \in {x \in Exported : x.cmd = c /\ x.first_task # 0}}

Returned ==
    /\ pc = "idle"
    /\ ran >= 1
    /\ returned.status = "returned"

\* C25: an outermost command removes the per-item tasks an earlier command left
\* in the tracker before it processes any item, so the list it returns holds
\* only tasks it created itself, the first being the task of its first item.
C25_ReturnedTasksAreOwn ==
    Returned
    => /\ \A id \in DOMAIN returned.tasks : id \in CreatedBy(ran)
       /\ CreatedBy(ran) # {}
             => returned.tasks[1]
                   = command[CHOOSE id \in CreatedBy(ran) :
                                \A other \in CreatedBy(ran) : id <= other]

=============================================================================
